---- MODULE Spec2Model ----
(***************************************************************************)
(* ts.flint.windows: deferred window descriptors (WindowsFactory) and      *)
(* their resolution against a SparkContext's Windows registry.             *)
(*                                                                         *)
(* A Python call is modelled by an operator that yields a record:          *)
(*   ret    - the call's outcome, Return(v) or Raise(e);                   *)
(*   events - the calls made into the JVM binding, in order;               *)
(*   self   - the receiver's attribute dictionary after the call           *)
(*            (methods only).                                              *)
(***************************************************************************)
EXTENDS Integers, Sequences, FiniteSets, TLC

VARIABLES heap, born, hist, last, jvm

vars == <<heap, born, hist, last, jvm>>

-----------------------------------------------------------------------------
(* Bounds of the model *)

MaxArgs == 2
MaxResolves == 2

\* object identities available for descriptors
DescIds == {"w1", "w2"}

\* SparkContexts a caller may pass to _jwindow
Contexts == {"sc1", "sc2"}

-----------------------------------------------------------------------------
(* Python values and outcomes *)

PyStr(s) == [t |-> "str", s |-> s, i |-> 0]
PyInt(n) == [t |-> "int", s |-> "", i |-> n]

\* argument values a caller may hand to WindowsFactory: a well-formed
\* duration string, and a value that is no duration (not even a string)
Values == {PyStr("1d"), PyInt(-12)}

\* durations a caller may hand to past_absolute_time and future_absolute_time:
\* those, and a malformed duration string
Durations == Values \cup {PyStr("dys")}

\* operation names a caller may hand to WindowsFactory
Names == {"pastAbsoluteTime", "futureAbsoluteTime", "presentTime"}

RECURSIVE SeqsUpTo(_)
SeqsUpTo(n) ==
    IF n = 0 THEN {<<>>}
    ELSE LET shorter == SeqsUpTo(n - 1)
         IN shorter \cup {Append(s, v) : s \in {x \in shorter : Len(x) = n - 1}, v \in Values}

ArgLists == SeqsUpTo(MaxArgs)

Return(v) == [kind |-> "return", val |-> v]
Raise(e) == [kind |-> "raise", exc |-> e]

Digit(d) == CASE d = 0 -> "0" [] d = 1 -> "1" [] d = 2 -> "2" [] d = 3 -> "3"
              [] d = 4 -> "4" [] d = 5 -> "5" [] d = 6 -> "6" [] d = 7 -> "7"
              [] d = 8 -> "8" [] d = 9 -> "9"

RECURSIVE NatStr(_)
NatStr(n) == IF n < 10 THEN Digit(n) ELSE NatStr(n \div 10) \o Digit(n % 10)

\* Python's str(arg)
str(arg) ==
    IF arg.t = "str" THEN arg.s
    ELSE IF arg.i < 0 THEN "-" \o NatStr(0 - arg.i) ELSE NatStr(arg.i)

\* Python's sep.join(parts)
RECURSIVE join(_, _)
join(sep, parts) ==
    IF parts = <<>> THEN ""
    ELSE IF Len(parts) = 1 THEN parts[1]
    ELSE parts[1] \o sep \o join(sep, Tail(parts))

-----------------------------------------------------------------------------
(* The JVM binding reached through ts.flint.java: the registry of window   *)
(* constructors of a context, its attribute lookup and its constructors.   *)
(* Every call into the binding is an event; n is the number of events that *)
(* came before it, and names the object or the error the call creates.     *)

Event(ev, sc, name, args, out) ==
    [ev |-> ev, sc |-> sc, name |-> name, args |-> args, out |-> out]

\* the constructors the Windows registry of a context exposes
Members(sc) ==
    IF sc = "sc1" THEN {"pastAbsoluteTime", "futureAbsoluteTime"}
    ELSE {"pastAbsoluteTime"}

\* the duration strings the engine's parser accepts
ValidDurations == {"1d"}

\* java.Packages(sc).Windows
Packages_Windows(sc) ==
    LET cls == [sc |-> sc, cls |-> "Windows"]
    IN [ret |-> Return(cls),
        events |-> <<Event("Windows", sc, "", <<>>, Return(cls))>>]

\* registry.__getattr__(name)
JavaClass__getattr__(cls, name, n) ==
    LET out == IF name \in Members(cls.sc)
               THEN Return([sc |-> cls.sc, member |-> name])
               ELSE Raise([type |-> "NoSuchAttribute", name |-> name,
                           args |-> <<>>, eid |-> n])
    IN [ret |-> out, events |-> <<Event("getattr", cls.sc, name, <<>>, out)>>]

\* registry.<name>(*args)
JavaMember__call__(member, args, n) ==
    LET error(type) == Raise([type |-> type, name |-> member.member,
                              args |-> args, eid |-> n])
        out == IF Len(args) # 1 THEN error("ArityMismatch")
               ELSE IF args[1].t # "str" THEN error("TypeMismatch")
               ELSE IF args[1].s \notin ValidDurations THEN error("MalformedDuration")
               ELSE Return([cls |-> "Window", sc |-> member.sc, op |-> member.member,
                            duration |-> args[1].s, oid |-> n])
    IN [ret |-> out,
        events |-> <<Event("call", member.sc, member.member, args, out)>>]

-----------------------------------------------------------------------------
(* ts/flint/windows.py *)

\* WindowsFactoryBase.__init__(self, func, *args): the attributes it sets
WindowsFactoryBase__init__(func, args) ==
    [_func |-> func, _args |-> args]

\* WindowsFactory.__init__(self, func, *args)
WindowsFactory__init__(func, args) ==
    WindowsFactoryBase__init__(func, args)

\* variant: the arguments are validated when the descriptor is constructed
WindowsFactory_validating(func, args) ==
    IF \E k \in 1..Len(args) : args[k].t # "str" \/ args[k].s \notin ValidDurations
    THEN [ret |-> Raise([type |-> "ValueError", name |-> func, args |-> args, eid |-> jvm]),
          events |-> <<>>]
    ELSE [ret |-> Return(WindowsFactory__init__(func, args)), events |-> <<>>]

\* WindowsFactory(func, *args): the construction of a descriptor
WindowsFactory(func, args) ==
    [ret |-> Return(WindowsFactory__init__(func, args)), events |-> <<>>]

\* variant: the registry of the first context ever resolved against is kept
_java_cls_kept(self, sc) ==
    IF hist = <<>> THEN Packages_Windows(sc) ELSE Packages_Windows(hist[1].sc)

\* WindowsFactory._java_cls(self, sc)
_java_cls(self, sc) ==
    Packages_Windows(sc)

Reverse(s) == [k \in 1..Len(s) |-> s[Len(s) + 1 - k]]

\* variant: the arguments are passed in reverse order
_jwindow_reversed(self, sc) ==
    LET me == heap[self]
        cls == _java_cls(self, sc)
        attr == JavaClass__getattr__(cls.ret.val, me._func, jvm + Len(cls.events))
        found == cls.events \o attr.events
    IN IF attr.ret.kind = "raise"
       THEN [ret |-> attr.ret, events |-> found, self |-> me]
       ELSE LET res == JavaMember__call__(attr.ret.val, Reverse(me._args), jvm + Len(found))
            IN [ret |-> res.ret, events |-> found \o res.events, self |-> me]

\* variant: getattr(registry, func, None)(*args), so that a missing operation
\* surfaces as the call of None
_jwindow_defaulted(self, sc) ==
    LET me == heap[self]
        cls == _java_cls(self, sc)
        attr == JavaClass__getattr__(cls.ret.val, me._func, jvm + Len(cls.events))
        found == cls.events \o attr.events
    IN IF attr.ret.kind = "raise"
       THEN [ret |-> Raise([type |-> "TypeError", name |-> "NoneType",
                            args |-> <<>>, eid |-> jvm + Len(found)]),
             events |-> found, self |-> me]
       ELSE LET res == JavaMember__call__(attr.ret.val, me._args, jvm + Len(found))
            IN [ret |-> res.ret, events |-> found \o res.events, self |-> me]

\* variant: an error of the constructor is caught and raised anew, wrapped
_jwindow_wrapping(self, sc) ==
    LET me == heap[self]
        cls == _java_cls(self, sc)
        attr == JavaClass__getattr__(cls.ret.val, me._func, jvm + Len(cls.events))
        found == cls.events \o attr.events
    IN IF attr.ret.kind = "raise"
       THEN [ret |-> attr.ret, events |-> found, self |-> me]
       ELSE LET res == JavaMember__call__(attr.ret.val, me._args, jvm + Len(found))
                ret == IF res.ret.kind = "raise"
                       THEN Raise([type |-> "ValueError", name |-> me._func,
                                   args |-> me._args, eid |-> jvm + Len(found) + 1])
                       ELSE res.ret
            IN [ret |-> ret, events |-> found \o res.events, self |-> me]

\* variant: the context is remembered on the descriptor
_jwindow_storing(self, sc) ==
    LET me == heap[self]
        cls == _java_cls(self, sc)
        attr == JavaClass__getattr__(cls.ret.val, me._func, jvm + Len(cls.events))
        found == cls.events \o attr.events
        kept == [_func |-> me._func, _args |-> me._args, _sc |-> sc]
    IN IF attr.ret.kind = "raise"
       THEN [ret |-> attr.ret, events |-> found, self |-> kept]
       ELSE LET res == JavaMember__call__(attr.ret.val, me._args, jvm + Len(found))
            IN [ret |-> res.ret, events |-> found \o res.events, self |-> kept]

\* variant: a window once constructed for a context is kept in a module-level
\* table and handed out again
_jwindow_memoised(self, sc) ==
    LET me == heap[self]
        cls == _java_cls(self, sc)
        attr == JavaClass__getattr__(cls.ret.val, me._func, jvm + Len(cls.events))
        found == cls.events \o attr.events
        made == {k \in DOMAIN hist : hist[k].sc = sc /\ hist[k].ret.kind = "return"}
    IN IF made # {}
       THEN [ret |-> hist[CHOOSE k \in made : TRUE].ret, events |-> <<>>, self |-> me]
       ELSE IF attr.ret.kind = "raise"
       THEN [ret |-> attr.ret, events |-> found, self |-> me]
       ELSE LET res == JavaMember__call__(attr.ret.val, me._args, jvm + Len(found))
            IN [ret |-> res.ret, events |-> found \o res.events, self |-> me]

\* WindowsFactoryBase._jwindow(self, sc)
_jwindow(self, sc) ==
    LET me == heap[self]
        cls == _java_cls(self, sc)
        attr == JavaClass__getattr__(cls.ret.val, me._func, jvm + Len(cls.events))
        found == cls.events \o attr.events
    IN IF attr.ret.kind = "raise"
       THEN [ret |-> attr.ret, events |-> found, self |-> me]
       ELSE LET res == JavaMember__call__(attr.ret.val, me._args, jvm + Len(found))
            IN [ret |-> res.ret, events |-> found \o res.events, self |-> me]

\* variant: the arguments are joined by "," alone
__str__nospace(self) ==
    LET me == heap[self]
        parts == [k \in 1..Len(me._args) |-> str(me._args[k])]
    IN [ret |-> Return(me._func \o "(" \o join(",", parts) \o ")"),
        events |-> <<>>, self |-> me]

\* WindowsFactoryBase.__str__(self)
__str__(self) ==
    LET me == heap[self]
        parts == [k \in 1..Len(me._args) |-> str(me._args[k])]
    IN [ret |-> Return(me._func \o "(" \o join(", ", parts) \o ")"),
        events |-> <<>>, self |-> me]

\* variant: the operation name of the other factory
past_absolute_time_future(duration) ==
    WindowsFactory("futureAbsoluteTime", <<duration>>)

\* past_absolute_time(duration)
past_absolute_time(duration) ==
    WindowsFactory("pastAbsoluteTime", <<duration>>)

\* variant: the duration is captured as its string form
future_absolute_time_str(duration) ==
    WindowsFactory("futureAbsoluteTime", <<PyStr(str(duration))>>)

\* future_absolute_time(duration)
future_absolute_time(duration) ==
    WindowsFactory("futureAbsoluteTime", <<duration>>)

-----------------------------------------------------------------------------
(* The callers of the module: each action is one call from outside.        *)
(*   heap - the attribute dictionary of every descriptor created           *)
(*   born - each descriptor's attributes as they were when it was created  *)
(*   hist - the _jwindow calls made so far, with their outcome and events  *)
(*   last - the call made last, of any kind                                *)
(*   jvm  - the number of events the JVM binding has seen                  *)

Call(op, self, func, args, sc, r) ==
    [op |-> op, self |-> self, func |-> func, args |-> args, sc |-> sc,
     ret |-> r.ret, events |-> r.events]

Init ==
    /\ heap = <<>>
    /\ born = <<>>
    /\ hist = <<>>
    /\ jvm = 0
    /\ last = Call("none", "", "", <<>>, "", [ret |-> Return(""), events |-> <<>>])

\* a call that constructs a descriptor and binds it to the free identity w
Construct(w, op, func, args, r) ==
    /\ w \notin DOMAIN heap
    /\ IF r.ret.kind = "return"
       THEN /\ heap' = heap @@ (w :> r.ret.val)
            /\ born' = born @@ (w :> r.ret.val)
       ELSE UNCHANGED <<heap, born>>
    /\ last' = Call(op, w, func, args, "", r)
    /\ jvm' = jvm + Len(r.events)
    /\ UNCHANGED hist

NewWindowsFactory(w, func, args) ==
    Construct(w, "WindowsFactory", func, args, WindowsFactory(func, args))

PastAbsoluteTime(w, duration) ==
    Construct(w, "past_absolute_time", "", <<duration>>, past_absolute_time(duration))

FutureAbsoluteTime(w, duration) ==
    Construct(w, "future_absolute_time", "", <<duration>>, future_absolute_time(duration))

\* str(w)
Render(w) ==
    /\ w \in DOMAIN heap
    /\ LET r == __str__(w)
       IN /\ heap' = [heap EXCEPT ![w] = r.self]
          /\ last' = Call("__str__", w, "", <<>>, "", r)
          /\ jvm' = jvm + Len(r.events)
    /\ UNCHANGED <<born, hist>>

\* w._jwindow(sc)
Resolve(w, sc) ==
    /\ w \in DOMAIN heap
    /\ Len(hist) < MaxResolves
    /\ LET r == _jwindow(w, sc)
       IN /\ heap' = [heap EXCEPT ![w] = r.self]
          /\ last' = Call("_jwindow", w, "", <<>>, sc, r)
          /\ hist' = Append(hist, Call("_jwindow", w, "", <<>>, sc, r))
          /\ jvm' = jvm + Len(r.events)
    /\ UNCHANGED born

Next ==
    \/ \E w \in DescIds, func \in Names, args \in ArgLists : NewWindowsFactory(w, func, args)
    \/ \E w \in DescIds, d \in Durations : PastAbsoluteTime(w, d)
    \/ \E w \in DescIds, d \in Durations : FutureAbsoluteTime(w, d)
    \/ \E w \in DescIds : Render(w)
    \/ \E w \in DescIds, sc \in Contexts : Resolve(w, sc)

Spec == Init /\ [][Next]_vars

-----------------------------------------------------------------------------
(* Properties *)

Creations == {"WindowsFactory", "past_absolute_time", "future_absolute_time"}

\* the events of kind ev among those of call c
EventsOf(c, ev) == {k \in DOMAIN c.events : c.events[k].ev = ev}

\* the value v is not a duration the engine accepts
BadDuration(v) == v.t # "str" \/ v.s \notin ValidDurations

\* C1: a _jwindow call on a descriptor whose operation name the registry of
\* the supplied context has obtains that registry, looks the name up on it,
\* invokes the callable found with the descriptor's arguments in their
\* captured order, and returns what the callable returned, unchanged.
C1_ResolveInvokesCallable ==
    \A k \in DOMAIN hist :
        LET c == hist[k]
            d == born[c.self]
        IN d._func \in Members(c.sc) =>
            /\ Len(c.events) = 3
            /\ c.events[1].ev = "Windows" /\ c.events[1].sc = c.sc
            /\ c.events[2].ev = "getattr" /\ c.events[2].sc = c.sc
            /\ c.events[2].name = d._func
            /\ c.events[3].ev = "call" /\ c.events[3].sc = c.sc
            /\ c.events[3].name = d._func
            /\ c.events[3].args = d._args
            /\ c.events[3].out.kind = "return" => c.ret = c.events[3].out

\* a call returned the window its constructor made, and a call handed two
\* different arguments to a constructor
C1_Witness ==
    /\ \E k \in DOMAIN hist :
           /\ born[hist[k].self]._func \in Members(hist[k].sc)
           /\ hist[k].ret.kind = "return"
           /\ hist[k].ret.val.cls = "Window"
    /\ \E k \in DOMAIN hist :
           /\ EventsOf(hist[k], "call") # {}
           /\ Len(born[hist[k].self]._args) = 2
           /\ born[hist[k].self]._args[1] # born[hist[k].self]._args[2]

\* C2: a _jwindow call on a descriptor whose operation name the registry of
\* the supplied context lacks raises the registry's own lookup error, which
\* names the missing operation, and invokes no constructor.
C2_MissingOperationRaises ==
    \A k \in DOMAIN hist :
        LET c == hist[k]
            d == born[c.self]
        IN d._func \notin Members(c.sc) =>
            /\ c.ret.kind = "raise"
            /\ c.ret.exc.type = "NoSuchAttribute"
            /\ c.ret.exc.name = d._func
            /\ EventsOf(c, "call") = {}
            /\ \E e \in EventsOf(c, "getattr") : c.events[e].out = c.ret

C2_Witness ==
    \E k \in DOMAIN hist :
        /\ born[hist[k].self]._func \notin Members(hist[k].sc)
        /\ hist[k].ret.kind = "raise"

\* C3: past_absolute_time(d) returns a descriptor whose operation name is
\* "pastAbsoluteTime" and whose arguments are the one-element sequence <<d>>,
\* d being the value passed, whatever it is.
C3_PastAbsoluteTime ==
    last.op = "past_absolute_time" =>
        /\ last.ret = Return([_func |-> "pastAbsoluteTime", _args |-> <<last.args[1]>>])
        /\ last.self \in DOMAIN heap
        /\ heap[last.self]._func = "pastAbsoluteTime"
        /\ heap[last.self]._args = <<last.args[1]>>

C3_Witness ==
    /\ last.op = "past_absolute_time"
    /\ last.args[1] = PyStr("dys")
    /\ last.self \in DOMAIN heap

\* C4: future_absolute_time(d) returns a descriptor whose operation name is
\* "futureAbsoluteTime" and whose arguments are the one-element sequence
\* <<d>>, d being the value passed, whatever it is.
C4_FutureAbsoluteTime ==
    last.op = "future_absolute_time" =>
        /\ last.ret = Return([_func |-> "futureAbsoluteTime", _args |-> <<last.args[1]>>])
        /\ last.self \in DOMAIN heap
        /\ heap[last.self]._func = "futureAbsoluteTime"
        /\ heap[last.self]._args = <<last.args[1]>>

C4_Witness ==
    /\ last.op = "future_absolute_time"
    /\ last.args[1] = PyInt(-12)
    /\ heap[last.self]._args[1].t = "int"

\* C5: the creation of a descriptor returns (it never raises) and makes no
\* call into a registry or context, whatever its arguments; every error
\* a call has raised was raised by a _jwindow call.
C5_CreationNeverRaises ==
    /\ last.op \in Creations =>
           /\ last.ret.kind = "return"
           /\ last.events = <<>>
           /\ last.self \in DOMAIN heap
    /\ last.ret.kind = "raise" => last.op = "_jwindow"

\* a descriptor was created from a value that is no duration, after the
\* resolution of another descriptor had raised an error
C5_Witness ==
    /\ last.op \in Creations
    /\ \E k \in DOMAIN last.args : BadDuration(last.args[k])
    /\ last.ret.kind = "return"
    /\ \E k \in DOMAIN hist : hist[k].ret.kind = "raise"

\* C6: when the registry's lookup or the constructor raises an error during
\* a _jwindow call, the call raises that very error (the same error object,
\* with its type and content) and returns no value.
C6_ErrorsPropagateUnchanged ==
    \A k \in DOMAIN hist :
        LET c == hist[k]
        IN /\ \A e \in DOMAIN c.events :
                  c.events[e].out.kind = "raise" => c.ret = c.events[e].out
           /\ c.ret.kind = "raise" =>
                  \E e \in DOMAIN c.events : c.events[e].out = c.ret

\* a lookup raised, and a constructor raised over a malformed duration
C6_Witness ==
    /\ \E k \in DOMAIN hist :
           \E e \in EventsOf(hist[k], "getattr") : hist[k].events[e].out.kind = "raise"
    /\ \E k \in DOMAIN hist :
           \E e \in EventsOf(hist[k], "call") :
               /\ hist[k].events[e].out.kind = "raise"
               /\ hist[k].events[e].out.exc.type = "MalformedDuration"
               /\ hist[k].ret.kind = "raise"

\* C7: the attributes of a descriptor are, after any calls of __str__ and
\* _jwindow on it, those it got when it was created: the operation name and
\* the arguments, unchanged, and nothing else (no context).
C7_DescriptorImmutable ==
    \A w \in DOMAIN heap :
        /\ DOMAIN heap[w] = {"_func", "_args"}
        /\ heap[w] = born[w]

\* a descriptor was resolved against two contexts, once with an error, and
\* then rendered
C7_Witness ==
    /\ last.op = "__str__"
    /\ \E i, j \in DOMAIN hist :
           /\ hist[i].self = last.self /\ hist[j].self = last.self
           /\ hist[i].sc # hist[j].sc
           /\ hist[i].ret.kind = "return" /\ hist[j].ret.kind = "raise"

\* the string form of each argument value of the model
StringForm(v) ==
    CASE v = PyStr("1d") -> "1d" [] v = PyStr("dys") -> "dys" [] v = PyInt(-12) -> "-12"

\* the string forms of args, ", " between neighbours
RECURSIVE Listed(_)
Listed(args) ==
    IF args = <<>> THEN ""
    ELSE IF Len(args) = 1 THEN StringForm(args[1])
    ELSE Listed(SubSeq(args, 1, Len(args) - 1)) \o ", " \o StringForm(args[Len(args)])

\* C8: __str__ returns the operation name, "(", the string forms of the
\* arguments in captured order with ", " between them, and ")"; the
\* descriptor of past_absolute_time("1d") renders as "pastAbsoluteTime(1d)"
\* and one without arguments as its operation name followed by "()".
C8_Rendering ==
    last.op = "__str__" =>
        LET d == born[last.self]
        IN /\ last.ret = Return(d._func \o "(" \o Listed(d._args) \o ")")
           /\ d = past_absolute_time(PyStr("1d")).ret.val
                  => last.ret.val = "pastAbsoluteTime(1d)"
           /\ d._args = <<>> => last.ret.val = d._func \o "()"

\* a descriptor of two different arguments, one no string, was rendered
C8_Witness ==
    /\ last.op = "__str__"
    /\ born[last.self]._args = <<PyStr("1d"), PyInt(-12)>>
    /\ last.ret.val = born[last.self]._func \o "(1d, -12)"

\* an outcome without the identity of the object or error it carries
Anon(out) ==
    IF out.kind = "raise" THEN Raise([out.exc EXCEPT !.eid = 0])
    ELSE IF "oid" \in DOMAIN out.val THEN Return([out.val EXCEPT !.oid = 0])
    ELSE out

AnonEvents(events) == [k \in DOMAIN events |-> [events[k] EXCEPT !.out = Anon(@)]]

\* C9: two _jwindow calls with the same context on two different descriptors
\* created with the same operation name and the same arguments make the same
\* calls into the registry and end alike: equal windows but for their
\* identity, or equal errors but for their identity.
C9_EqualDescriptorsInterchangeable ==
    \A i, j \in DOMAIN hist :
        (/\ hist[i].self # hist[j].self
         /\ born[hist[i].self] = born[hist[j].self]
         /\ hist[i].sc = hist[j].sc)
        => /\ AnonEvents(hist[i].events) = AnonEvents(hist[j].events)
           /\ Anon(hist[i].ret) = Anon(hist[j].ret)

C9_Witness ==
    \E i, j \in DOMAIN hist :
        /\ hist[i].self # hist[j].self
        /\ born[hist[i].self] = born[hist[j].self]
        /\ hist[i].sc = hist[j].sc
        /\ hist[i].ret.kind = "return"

\* what a _jwindow call c starts with: the registry of its own context and
\* one lookup of the descriptor's operation name on it
ObtainsAndLooksUp(c) ==
    /\ Len(c.events) >= 2
    /\ c.events[1].ev = "Windows" /\ c.events[1].sc = c.sc
    /\ c.events[2].ev = "getattr" /\ c.events[2].sc = c.sc
    /\ c.events[2].name = born[c.self]._func

\* the one constructor invocation of call c, with the captured arguments
InvokesOnce(c) ==
    /\ Len(c.events) = 3
    /\ c.events[3].ev = "call" /\ c.events[3].sc = c.sc
    /\ c.events[3].name = born[c.self]._func
    /\ c.events[3].args = born[c.self]._args

\* no earlier call ended with the object or the error call k ends with
FreshOutcome(k) == \A j \in 1..(k - 1) : hist[j].ret # hist[k].ret

\* C10 as stated: every _jwindow call obtains the registry of the context
\* passed to it, makes one lookup and one constructor invocation with the
\* captured arguments, and reuses no earlier result.
C10_AlwaysOneInvocation ==
    \A k \in DOMAIN hist :
        /\ ObtainsAndLooksUp(hist[k])
        /\ InvokesOnce(hist[k])
        /\ FreshOutcome(k)

\* C10 (amended): every _jwindow call obtains the registry of the context
\* passed to it and makes one lookup on it; when the lookup succeeds it makes
\* one constructor invocation with the captured arguments, and when the
\* lookup raises it makes none; it reuses no earlier result.
C10_ResolveAfresh ==
    \A k \in DOMAIN hist :
        /\ ObtainsAndLooksUp(hist[k])
        /\ IF hist[k].events[2].out.kind = "return"
           THEN InvokesOnce(hist[k])
           ELSE Len(hist[k].events) = 2
        /\ FreshOutcome(k)

\* one descriptor was resolved against sc1 and then against sc2, and each
\* context's constructor made a window of its own
C10_Witness ==
    /\ Len(hist) >= 2
    /\ hist[1].self = hist[2].self
    /\ hist[1].sc = "sc1" /\ hist[2].sc = "sc2"
    /\ hist[1].ret.kind = "return" /\ hist[1].ret.val.sc = "sc1"
    /\ hist[2].ret.kind = "return" /\ hist[2].ret.val.sc = "sc2"
    /\ hist[1].ret.val.oid # hist[2].ret.val.oid

====
